---- MODULE Spec2Model ----
(***************************************************************************)
(* A model of geoarrow's Table (src/src/table.rs): a schema plus an        *)
(* ordered list of record batches, with its constructors, its column       *)
(* mutators and its geometry-column lookups.                               *)
(*                                                                         *)
(* Arrow values are abstracted to what table.rs observes of them:          *)
(*   Field        [name, data_type, nullable, ext]   (ext is the value of  *)
(*                the ARROW:extension:name metadata key, "none" if absent) *)
(*   Schema       [fields, metadata]                                       *)
(*   Array        [data_type, len, null_count, val]  (val names the data)  *)
(*   RecordBatch  [schema, columns, row_count]                             *)
(*   Table        [schema, batches]                                        *)
(* A call returns [status, table, value]: status is "Ok", "Err" (an Err    *)
(* value handed to the caller) or "Panic" (the call unwinds), table is the *)
(* table the call leaves behind.                                           *)
(***************************************************************************)
EXTENDS Integers, Sequences, FiniteSets, TLC

\* The longest batch list, column list and chunk list handed to a call.
MaxBatches == 2
\* append_column is not called on a table that already has MaxCols columns.
MaxCols == 3

(***************************************************************************)
(* Sequence helpers                                                        *)
(***************************************************************************)
Min(a, b) == IF a <= b THEN a ELSE b

\* Vec::remove(i), i 0-based and in range.
RemoveAt(s, i) == [k \in 1..(Len(s) - 1) |-> IF k <= i THEN s[k] ELSE s[k + 1]]

\* v[i] = x, i 0-based and in range.
SetAt(s, i, x) == [s EXCEPT ![i + 1] = x]

\* The lists of length n over S whose entries are all equal except possibly
\* the last one: enough to put a deviating element at a later position.
TailSeqs(S, n) ==
    IF n = 0 THEN {<< >>}
    ELSE {[k \in 1..n |-> IF k = n THEN b ELSE a] : a \in S, b \in S}

UpToSeqs(S, n) == UNION {TailSeqs(S, m) : m \in 0..n}

(***************************************************************************)
(* Arrow values                                                            *)
(***************************************************************************)
Field(n, dt, nl, e) == [name |-> n, data_type |-> dt, nullable |-> nl, ext |-> e]

Arr(dt, n, nulls, v) == [data_type |-> dt, len |-> n, null_count |-> nulls, val |-> v]

Schema(fs, md) == [fields |-> fs, metadata |-> md]

\* Option<T>
Some(x) == [some |-> TRUE, v |-> x]
None == [some |-> FALSE]

Ok(t, v) == [status |-> "Ok", table |-> t, value |-> v]
Err(t, e) == [status |-> "Err", table |-> t, value |-> e]
Panic(t) == [status |-> "Panic", table |-> t, value |-> "panic"]

\* arrow's RecordBatch::try_new(schema, columns), as table.rs relies on it:
\* one column per field, at least one column (the row count is the first
\* column's length), no nulls in a non-nullable field, equal column
\* lengths, each column's data type equal to its field's.
RecordBatch_try_new(schema, columns) ==
    LET n == Len(columns)
    IN  IF Len(schema.fields) # n THEN [ok |-> FALSE]
        ELSE IF n = 0 THEN [ok |-> FALSE]
        ELSE IF \E k \in 1..n : ~schema.fields[k].nullable /\ columns[k].null_count > 0
             THEN [ok |-> FALSE]
        ELSE IF \E k \in 1..n : columns[k].len # columns[1].len THEN [ok |-> FALSE]
        ELSE IF \E k \in 1..n : columns[k].data_type # schema.fields[k].data_type
             THEN [ok |-> FALSE]
        ELSE [ok |-> TRUE,
              batch |-> [schema |-> schema, columns |-> columns,
                         row_count |-> columns[1].len]]

\* arrow's RecordBatch::remove_column(i) for i in range: the schema is
\* rebuilt from the fields alone (its metadata is dropped), the row count
\* is kept.
RecordBatch_remove_column(batch, i) ==
    [schema |-> Schema(RemoveAt(batch.schema.fields, i), "none"),
     columns |-> RemoveAt(batch.columns, i),
     row_count |-> batch.row_count]

(***************************************************************************)
(* GeoDataType and the extension names                                     *)
(***************************************************************************)
\* A plausible bug: the OGC name of WKB is left out.
GEOARROW_EXTENSION_NAMES_geoarrow_only ==
    {"geoarrow.point", "geoarrow.linestring", "geoarrow.polygon",
     "geoarrow.multipoint", "geoarrow.multilinestring", "geoarrow.multipolygon",
     "geoarrow.geometry", "geoarrow.geometrycollection", "geoarrow.wkb"}

GEOARROW_EXTENSION_NAMES ==
    {"geoarrow.point", "geoarrow.linestring", "geoarrow.polygon",
     "geoarrow.multipoint", "geoarrow.multilinestring", "geoarrow.multipolygon",
     "geoarrow.geometry", "geoarrow.geometrycollection", "geoarrow.wkb", "ogc.wkb"}

Geo(k, d) == [kind |-> k, dim |-> d]

WKB == Geo("WKB", "-")
LargeWKB == Geo("LargeWKB", "-")

GeoKinds ==
    {"Point", "LineString", "Polygon", "MultiPoint", "MultiLineString",
     "MultiPolygon", "GeometryCollection", "Mixed", "LargeMixed", "WKB", "LargeWKB"}

\* The extension name a GeoDataType writes into its field.
extension_name(g) ==
    CASE g.kind = "Point" -> "geoarrow.point"
      [] g.kind = "LineString" -> "geoarrow.linestring"
      [] g.kind = "Polygon" -> "geoarrow.polygon"
      [] g.kind = "MultiPoint" -> "geoarrow.multipoint"
      [] g.kind = "MultiLineString" -> "geoarrow.multilinestring"
      [] g.kind = "MultiPolygon" -> "geoarrow.multipolygon"
      [] g.kind = "GeometryCollection" -> "geoarrow.geometrycollection"
      [] g.kind \in {"Mixed", "LargeMixed"} -> "geoarrow.geometry"
      [] g.kind \in {"WKB", "LargeWKB"} -> "geoarrow.wkb"

\* The Arrow storage type of a GeoDataType.
to_data_type(g) ==
    CASE g.kind = "Point" -> <<"FixedSizeList", g.dim>>
      [] g.kind \in {"LineString", "MultiPoint"} -> <<"List", g.dim>>
      [] g.kind \in {"Polygon", "MultiLineString"} -> <<"ListList", g.dim>>
      [] g.kind = "MultiPolygon" -> <<"ListListList", g.dim>>
      [] g.kind = "GeometryCollection" -> <<"ListUnion", g.dim>>
      [] g.kind = "Mixed" -> <<"Union", g.dim>>
      [] g.kind = "LargeMixed" -> <<"LargeUnion", g.dim>>
      [] g.kind = "WKB" -> <<"Binary", "-">>
      [] g.kind = "LargeWKB" -> <<"LargeBinary", "-">>

Int32 == <<"Int32", "-">>

\* GeoDataType::to_field(name, nullable)
to_field(g, name, nullable) == Field(name, to_data_type(g), nullable, extension_name(g))

\* The kinds of GeoDataType that go by an extension name.  WKB goes by two
\* names.
kinds_of_name(ext) ==
    CASE ext = "geoarrow.point" -> {"Point"}
      [] ext = "geoarrow.linestring" -> {"LineString"}
      [] ext = "geoarrow.polygon" -> {"Polygon"}
      [] ext = "geoarrow.multipoint" -> {"MultiPoint"}
      [] ext = "geoarrow.multilinestring" -> {"MultiLineString"}
      [] ext = "geoarrow.multipolygon" -> {"MultiPolygon"}
      [] ext = "geoarrow.geometrycollection" -> {"GeometryCollection"}
      [] ext = "geoarrow.geometry" -> {"Mixed", "LargeMixed"}
      [] ext \in {"geoarrow.wkb", "ogc.wkb"} -> {"WKB", "LargeWKB"}
      [] OTHER -> {}

\* The GeoDataType a field declares, if any: read from the extension name
\* and the storage type.
field_geo_type(field) ==
    LET cands == {g \in {Geo(k, field.data_type[2]) : k \in kinds_of_name(field.ext)} :
                    /\ (g.dim = "-") = (g.kind \in {"WKB", "LargeWKB"})
                    /\ to_data_type(g) = field.data_type}
    IN  IF cands = {} THEN [ok |-> FALSE]
        ELSE [ok |-> TRUE, geo |-> CHOOSE g \in cands : TRUE]

\* GeoSchemaExt::geometry_columns: the 0-based indices, in order, of the
\* fields whose extension name is a recognised one.
RECURSIVE geometry_columns_from(_, _)
geometry_columns_from(fields, k) ==
    IF k > Len(fields) THEN << >>
    ELSE (IF fields[k].ext \in GEOARROW_EXTENSION_NAMES THEN <<k - 1>> ELSE << >>)
         \o geometry_columns_from(fields, k + 1)

schema_geometry_columns(schema) == geometry_columns_from(schema.fields, 1)

(***************************************************************************)
(* Table: accessors                                                        *)
(***************************************************************************)
Table(schema, batches) == [schema |-> schema, batches |-> batches]

NoTable == Table(Schema(<< >>, "none"), << >>)

RECURSIVE SumRows(_)
SumRows(bs) == IF bs = << >> THEN 0 ELSE bs[1].row_count + SumRows(Tail(bs))

len(t) == SumRows(t.batches)

is_empty(t) == len(t) = 0

num_columns(t) == Len(t.schema.fields)

(***************************************************************************)
(* Table: constructors                                                     *)
(***************************************************************************)
\* A plausible bug: only the number of fields is compared.
try_new_counts_only(batches, schema) ==
    IF \E j \in 1..Len(batches) :
         Len(batches[j].schema.fields) # Len(schema.fields)
    THEN Err(NoTable, "schema mismatch")
    ELSE Ok(Table(schema, batches), "table")

try_new(batches, schema) ==
    IF \E j \in 1..Len(batches) : batches[j].schema.fields # schema.fields
    THEN Err(NoTable, "schema mismatch")
    ELSE Ok(Table(schema, batches), "table")

\* ChunkedGeometryArray::extension_field: the field of the chunks' type.
extension_field(geometry) == to_field(geometry.data_type, "geometry", TRUE)

\* GeometryArray::to_array_ref: the chunk's Arrow array.
to_array_ref(chunk) == chunk

\* A plausible bug: the loop stops one pair short.
RECURSIVE zip_geometry_short(_, _, _, _)
zip_geometry_short(batches, chunks, new_schema, j) ==
    IF j >= Min(Len(batches), Len(chunks)) THEN [ok |-> TRUE, batches |-> << >>]
    ELSE LET columns == Append(batches[j].columns, to_array_ref(chunks[j]))
             b == RecordBatch_try_new(new_schema, columns)
         IN  IF ~b.ok THEN [ok |-> FALSE]
             ELSE LET rest == zip_geometry_short(batches, chunks, new_schema, j + 1)
                  IN  IF ~rest.ok THEN [ok |-> FALSE]
                      ELSE [ok |-> TRUE, batches |-> <<b.batch>> \o rest.batches]

\* The batches the zip loop of from_arrow_and_geometry builds, up to the
\* first RecordBatch::try_new that fails.
RECURSIVE zip_geometry(_, _, _, _)
zip_geometry(batches, chunks, new_schema, j) ==
    IF j > Min(Len(batches), Len(chunks)) THEN [ok |-> TRUE, batches |-> << >>]
    ELSE LET columns == Append(batches[j].columns, to_array_ref(chunks[j]))
             b == RecordBatch_try_new(new_schema, columns)
         IN  IF ~b.ok THEN [ok |-> FALSE]
             ELSE LET rest == zip_geometry(batches, chunks, new_schema, j + 1)
                  IN  IF ~rest.ok THEN [ok |-> FALSE]
                      ELSE [ok |-> TRUE, batches |-> <<b.batch>> \o rest.batches]

from_arrow_and_geometry(batches, schema, geometry) ==
    IF batches = << >> THEN Err(NoTable, "empty input")
    ELSE LET new_schema == Schema(Append(schema.fields, extension_field(geometry)), "none")
             new_batches == zip_geometry(batches, geometry.chunks, new_schema, 1)
         IN  IF ~new_batches.ok THEN Err(NoTable, "arrow error")
             ELSE try_new(new_batches.batches, new_schema)

(***************************************************************************)
(* Chunked geometry arrays: from_arrow_chunks, cast, from_wkb, downcast    *)
(***************************************************************************)
Chunked(g, chunks) == [data_type |-> g, chunks |-> chunks]

\* from_arrow_chunks(chunks, field): the chunked geometry array of the
\* field's GeoDataType over the given arrays.  `empty` is what the call
\* does on an empty chunk list ("Err" or "Panic").
from_arrow_chunks(chunks, field, empty) ==
    IF chunks = << >> THEN [status |-> empty]
    ELSE LET g == field_geo_type(field)
         IN  IF ~g.ok THEN [status |-> "Err"]
             ELSE [status |-> "Ok", value |-> Chunked(g.geo, chunks)]

\* Whether every row of every chunk holds a geometry of kind k.
uniform_kind(chunks, k) ==
    \A j \in 1..Len(chunks) :
        chunks[j].val = (IF k = "Point" THEN "pt" ELSE IF k = "LineString" THEN "ls" ELSE "mix")

\* Whether cast(from -> to) is representable for these chunks: the layout
\* may change, the dimension may widen but not narrow, a concrete kind may
\* be wrapped into a mixed one, and a mixed one narrows to a concrete kind
\* only when every row is of that kind.
can_cast(from, to, chunks) ==
    /\ from.kind \notin {"WKB", "LargeWKB"}
    /\ to.kind \notin {"WKB", "LargeWKB"}
    /\ from.dim = to.dim \/ (from.dim = "XY" /\ to.dim = "XYZ")
    /\ \/ from.kind = to.kind
       \/ to.kind \in {"Mixed", "LargeMixed"}
       \/ from.kind \in {"Mixed", "LargeMixed"} /\ uniform_kind(chunks, to.kind)

retype(chunk, g) == [chunk EXCEPT !.data_type = to_data_type(g)]

\* ChunkedGeometryArray::cast(to_type)
cast(chunked, to) ==
    IF ~can_cast(chunked.data_type, to, chunked.chunks) THEN [status |-> "Err"]
    ELSE [status |-> "Ok",
          value |-> Chunked(to, [j \in 1..Len(chunked.chunks) |->
                                    retype(chunked.chunks[j], to)])]

\* from_wkb(chunk, target, should_downcast = true): a malformed blob fails
\* the call; otherwise the rows are decoded into the mixed representation
\* at the target's dimension and offset width and narrowed to the kind the
\* rows actually have.
from_wkb(chunk, target) ==
    IF chunk.val = "bad" THEN [status |-> "Err"]
    ELSE LET g == CASE chunk.val = "pt" -> Geo("Point", target.dim)
                    [] chunk.val = "ls" -> Geo("LineString", target.dim)
                    [] OTHER -> Geo(IF target.kind \in {"LargeMixed", "LargeWKB"}
                                    THEN "LargeMixed" ELSE "Mixed", target.dim)
         IN  [status |-> "Ok", geo |-> g, value |-> retype(chunk, g)]

\* from_geoarrow_chunks: the chunks of a chunked array share one type.
from_geoarrow_chunks(geos, chunks) ==
    IF chunks = << >> THEN [status |-> "Err"]
    ELSE IF \E j \in 1..Len(geos) : geos[j] # geos[1] THEN [status |-> "Err"]
    ELSE [status |-> "Ok", value |-> Chunked(geos[1], chunks)]

\* ChunkedGeometryArray::downcast(true) after from_wkb has narrowed every
\* chunk: the one decision for all chunks is the type they already share.
downcast(chunked) == chunked

(***************************************************************************)
(* Table: column mutators                                                  *)
(***************************************************************************)
\* The batches the zip/map/collect of set_column builds: stops at the
\* shorter of the two lists, and at the first RecordBatch::try_new error.
RECURSIVE set_column_batches(_, _, _, _, _)
set_column_batches(batches, column, schema, i, j) ==
    IF j > Min(Len(batches), Len(column)) THEN [status |-> "Ok", batches |-> << >>]
    ELSE IF i >= Len(batches[j].columns) THEN [status |-> "Panic"]
    ELSE LET b == RecordBatch_try_new(schema, SetAt(batches[j].columns, i, column[j]))
         IN  IF ~b.ok THEN [status |-> "Err"]
             ELSE LET rest == set_column_batches(batches, column, schema, i, j + 1)
                  IN  IF rest.status # "Ok" THEN rest
                      ELSE [status |-> "Ok", batches |-> <<b.batch>> \o rest.batches]

\* A plausible bug: the new schema is stored before the batches are built,
\* so a failing call leaves it behind.
set_column_schema_first(t, i, field, column) ==
    IF i >= Len(t.schema.fields) THEN Panic(t)
    ELSE LET schema == Schema(SetAt(t.schema.fields, i, field), t.schema.metadata)
             new == set_column_batches(t.batches, column, schema, i, 1)
         IN  CASE new.status = "Panic" -> Panic(Table(schema, t.batches))
               [] new.status = "Err" -> Err(Table(schema, t.batches), "arrow error")
               [] OTHER -> Ok(Table(schema, new.batches), "unit")

\* A plausible bug: the new schema is never stored in the table.
set_column_keeps_schema(t, i, field, column) ==
    IF i >= Len(t.schema.fields) THEN Panic(t)
    ELSE LET schema == Schema(SetAt(t.schema.fields, i, field), t.schema.metadata)
             new == set_column_batches(t.batches, column, schema, i, 1)
         IN  CASE new.status = "Panic" -> Panic(t)
               [] new.status = "Err" -> Err(t, "arrow error")
               [] OTHER -> Ok(Table(t.schema, new.batches), "unit")

set_column(t, i, field, column) ==
    IF i >= Len(t.schema.fields) THEN Panic(t)
    ELSE LET schema == Schema(SetAt(t.schema.fields, i, field), t.schema.metadata)
             new == set_column_batches(t.batches, column, schema, i, 1)
         IN  CASE new.status = "Panic" -> Panic(t)
               [] new.status = "Err" -> Err(t, "arrow error")
               [] OTHER -> Ok(Table(schema, new.batches), "unit")

\* The in-place loop of remove_column over the batches: RecordBatch's
\* remove_column panics on an index out of range, leaving the batches
\* before it already shortened.
RECURSIVE remove_column_batches(_, _, _)
remove_column_batches(batches, i, j) ==
    IF j > Len(batches) THEN [status |-> "Ok", batches |-> batches, removed |-> << >>]
    ELSE IF i >= Len(batches[j].columns)
         THEN [status |-> "Panic", batches |-> batches, removed |-> << >>]
    ELSE LET rest == remove_column_batches(
                         [batches EXCEPT ![j] = RecordBatch_remove_column(batches[j], i)],
                         i, j + 1)
         IN  [rest EXCEPT !.removed = <<batches[j].columns[i + 1]>> \o rest.removed]

\* A plausible bug: the column after the requested one is removed from
\* the batches.
remove_column_off_by_one(t, i) ==
    LET k == IF i + 1 < Len(t.schema.fields) THEN i + 1 ELSE i
        r == remove_column_batches(t.batches, k, 1)
    IN  IF r.status = "Panic" THEN Panic(Table(t.schema, r.batches))
        ELSE IF i >= Len(t.schema.fields) THEN Panic(Table(t.schema, r.batches))
        ELSE Ok(Table(Schema(RemoveAt(t.schema.fields, i), "none"), r.batches), r.removed)

remove_column(t, i) ==
    LET r == remove_column_batches(t.batches, i, 1)
    IN  IF r.status = "Panic" THEN Panic(Table(t.schema, r.batches))
        ELSE IF i >= Len(t.schema.fields) THEN Panic(Table(t.schema, r.batches))
        ELSE Ok(Table(Schema(RemoveAt(t.schema.fields, i), "none"), r.batches), r.removed)

\* The batches the zip/map/collect of append_column builds.
RECURSIVE append_column_batches(_, _, _, _)
append_column_batches(batches, column, field, j) ==
    IF j > Min(Len(batches), Len(column)) THEN [ok |-> TRUE, batches |-> << >>]
    ELSE LET b == RecordBatch_try_new(
                      Schema(Append(batches[j].schema.fields, field), "none"),
                      Append(batches[j].columns, column[j]))
         IN  IF ~b.ok THEN [ok |-> FALSE]
             ELSE LET rest == append_column_batches(batches, column, field, j + 1)
                  IN  IF ~rest.ok THEN [ok |-> FALSE]
                      ELSE [ok |-> TRUE, batches |-> <<b.batch>> \o rest.batches]

\* A plausible bug: the new field is put first in the schema.
append_column_field_first(t, field, column) ==
    IF Len(t.batches) # Len(column) THEN Panic(t)
    ELSE LET new == append_column_batches(t.batches, column, field, 1)
         IN  IF ~new.ok THEN Err(t, "arrow error")
             ELSE LET schema == Schema(<<field>> \o t.schema.fields, "none")
                  IN  Ok(Table(schema, new.batches), Len(schema.fields) - 1)

\* A plausible bug: the number of fields is returned, not the index of the
\* last one.
append_column_returns_len(t, field, column) ==
    IF Len(t.batches) # Len(column) THEN Panic(t)
    ELSE LET new == append_column_batches(t.batches, column, field, 1)
         IN  IF ~new.ok THEN Err(t, "arrow error")
             ELSE LET schema == Schema(Append(t.schema.fields, field), "none")
                  IN  Ok(Table(schema, new.batches), Len(schema.fields))

append_column(t, field, column) ==
    IF Len(t.batches) # Len(column) THEN Panic(t)
    ELSE LET new == append_column_batches(t.batches, column, field, 1)
         IN  IF ~new.ok THEN Err(t, "arrow error")
             ELSE LET schema == Schema(Append(t.schema.fields, field), "none")
                  IN  Ok(Table(schema, new.batches), Len(schema.fields) - 1)

\* batch.column(index) for every batch; panics on an index out of range.
column_slices(t, index) ==
    IF \E j \in 1..Len(t.batches) : index >= Len(t.batches[j].columns)
    THEN [ok |-> FALSE]
    ELSE [ok |-> TRUE,
          slices |-> [j \in 1..Len(t.batches) |-> t.batches[j].columns[index + 1]]]

cast_geometry(t, index, to_type, empty) ==
    IF index >= Len(t.schema.fields) THEN Panic(t)
    ELSE LET orig_field == t.schema.fields[index + 1]
             array_slices == column_slices(t, index)
         IN  IF ~array_slices.ok THEN Panic(t)
             ELSE LET chunked_geometry ==
                          from_arrow_chunks(array_slices.slices, orig_field, empty)
                  IN  IF chunked_geometry.status = "Panic" THEN Panic(t)
                      ELSE IF chunked_geometry.status = "Err" THEN Err(t, "not a geometry")
                      ELSE LET casted_geometry == cast(chunked_geometry.value, to_type)
                           IN  IF casted_geometry.status = "Err" THEN Err(t, "cast error")
                               ELSE set_column(t, index,
                                               to_field(to_type, orig_field.name,
                                                        orig_field.nullable),
                                               casted_geometry.value.chunks)

\* The WKB branch of parse_geometry_to_native: every chunk through
\* from_wkb, the results through from_geoarrow_chunks, then downcast.
parse_wkb_chunks(chunked_geometry, target) ==
    LET parsed == [j \in 1..Len(chunked_geometry.chunks) |->
                      from_wkb(chunked_geometry.chunks[j], target)]
    IN  IF \E j \in 1..Len(parsed) : parsed[j].status = "Err" THEN [status |-> "Err"]
        ELSE LET c == from_geoarrow_chunks([j \in 1..Len(parsed) |-> parsed[j].geo],
                                           [j \in 1..Len(parsed) |-> parsed[j].value])
             IN  IF c.status = "Err" THEN c
                 ELSE [status |-> "Ok", value |-> downcast(c.value)]

\* A plausible bug: no early return for an empty table, so that the
\* column of a table without rows goes through from_arrow_chunks.
parse_geometry_to_native_no_empty_branch(t, index, target) ==
    LET target_geo_data_type == IF target.some THEN target.v ELSE Geo("LargeMixed", "XY")
    IN  IF index >= Len(t.schema.fields) THEN Panic(t)
        ELSE LET orig_field == t.schema.fields[index + 1]
                 array_slices == column_slices(t, index)
             IN  IF ~array_slices.ok THEN Panic(t)
                 ELSE LET chunked_geometry ==
                              from_arrow_chunks(array_slices.slices, orig_field, "Err")
                      IN  IF chunked_geometry.status = "Err"
                          THEN Err(t, "not a geometry")
                          ELSE LET g == chunked_geometry.value
                                   new_geometry ==
                                       IF g.data_type \in {WKB, LargeWKB}
                                       THEN parse_wkb_chunks(g, target_geo_data_type)
                                       ELSE chunked_geometry
                               IN  IF new_geometry.status = "Err"
                                   THEN Err(t, "parse error")
                                   ELSE set_column(
                                            t, index,
                                            to_field(new_geometry.value.data_type,
                                                     orig_field.name,
                                                     orig_field.nullable),
                                            new_geometry.value.chunks)

\* A plausible bug: a column that is not WKB is cast to the target type
\* instead of being passed through.
parse_geometry_to_native_casts_native(t, index, target) ==
    LET target_geo_data_type == IF target.some THEN target.v ELSE Geo("LargeMixed", "XY")
    IN  IF index >= Len(t.schema.fields) THEN Panic(t)
        ELSE LET orig_field == t.schema.fields[index + 1]
             IN  IF is_empty(t)
                 THEN set_column(t, index,
                                 to_field(target_geo_data_type, orig_field.name,
                                          orig_field.nullable),
                                 << >>)
                 ELSE LET array_slices == column_slices(t, index)
                      IN  IF ~array_slices.ok THEN Panic(t)
                          ELSE LET chunked_geometry ==
                                       from_arrow_chunks(array_slices.slices, orig_field, "Err")
                               IN  IF chunked_geometry.status = "Err"
                                   THEN Err(t, "not a geometry")
                                   ELSE LET g == chunked_geometry.value
                                            new_geometry ==
                                                IF g.data_type \in {WKB, LargeWKB}
                                                THEN parse_wkb_chunks(g, target_geo_data_type)
                                                ELSE cast(g, target_geo_data_type)
                                        IN  IF new_geometry.status = "Err"
                                            THEN Err(t, "parse error")
                                            ELSE set_column(
                                                     t, index,
                                                     to_field(new_geometry.value.data_type,
                                                              orig_field.name,
                                                              orig_field.nullable),
                                                     new_geometry.value.chunks)

\* target is an Option<GeoDataType>.
parse_geometry_to_native(t, index, target) ==
    LET target_geo_data_type == IF target.some THEN target.v ELSE Geo("LargeMixed", "XY")
    IN  IF index >= Len(t.schema.fields) THEN Panic(t)
        ELSE LET orig_field == t.schema.fields[index + 1]
             IN  IF is_empty(t)
                 THEN set_column(t, index,
                                 to_field(target_geo_data_type, orig_field.name,
                                          orig_field.nullable),
                                 << >>)
                 ELSE LET array_slices == column_slices(t, index)
                      IN  IF ~array_slices.ok THEN Panic(t)
                          ELSE LET chunked_geometry ==
                                       from_arrow_chunks(array_slices.slices, orig_field, "Err")
                               IN  IF chunked_geometry.status = "Err"
                                   THEN Err(t, "not a geometry")
                                   ELSE LET g == chunked_geometry.value
                                            new_geometry ==
                                                IF g.data_type \in {WKB, LargeWKB}
                                                THEN parse_wkb_chunks(g, target_geo_data_type)
                                                ELSE chunked_geometry
                                        IN  IF new_geometry.status = "Err"
                                            THEN Err(t, "parse error")
                                            ELSE set_column(
                                                     t, index,
                                                     to_field(new_geometry.value.data_type,
                                                              orig_field.name,
                                                              orig_field.nullable),
                                                     new_geometry.value.chunks)

\* The position closure of from_arrow: the 0-based index of the first
\* field whose extension name is a recognised one.
position(fields) ==
    LET found == {k \in 1..Len(fields) : fields[k].ext \in GEOARROW_EXTENSION_NAMES}
    IN  IF found = {} THEN None
        ELSE Some((CHOOSE k \in found : \A m \in found : k <= m) - 1)

\* The deprecated Table::from_arrow: the geometry column (the given one,
\* or the first one the schema has) is taken out of the schema and of every
\* batch, parsed if it is WKB, and put back as the last column.
from_arrow(batches, schema, geometry_column_index, target, empty) ==
    IF batches = << >> THEN try_new(batches, schema)
    ELSE IF ~geometry_column_index.some /\ ~position(schema.fields).some
    THEN [status |-> "Panic", table |-> NoTable, value |-> "no geometry column in table"]
    ELSE
    LET original_geometry_column_index ==
            IF geometry_column_index.some THEN geometry_column_index.v
            ELSE position(schema.fields).v
    IN  IF original_geometry_column_index >= Len(schema.fields) THEN Panic(NoTable)
        ELSE
        LET i == original_geometry_column_index
            original_geometry_field == schema.fields[i + 1]
            new_fields == RemoveAt(schema.fields, i)
            new_batches ==
                [j \in 1..Len(batches) |->
                    [columns |-> IF i < Len(batches[j].columns)
                                 THEN RemoveAt(batches[j].columns, i)
                                 ELSE batches[j].columns]]
            with_geom == SelectSeq([j \in 1..Len(batches) |-> j],
                                   LAMBDA j : i < Len(batches[j].columns))
            orig_geom_chunks ==
                [k \in 1..Len(with_geom) |-> batches[with_geom[k]].columns[i + 1]]
            chunked_geometry_array ==
                from_arrow_chunks(orig_geom_chunks, original_geometry_field, empty)
        IN  IF chunked_geometry_array.status = "Panic" THEN Panic(NoTable)
            ELSE IF chunked_geometry_array.status = "Err"
            THEN Err(NoTable, "not a geometry")
            ELSE
            LET parsed ==
                    IF chunked_geometry_array.value.data_type \in {WKB, LargeWKB}
                    THEN parse_wkb_chunks(chunked_geometry_array.value,
                                          IF target.some THEN target.v
                                          ELSE Geo("LargeMixed", "XY"))
                    ELSE chunked_geometry_array
            IN  IF parsed.status = "Err" THEN Err(NoTable, "parse error")
                ELSE
                LET new_schema ==
                        Schema(Append(new_fields, extension_field(parsed.value)), "none")
                    new_record_batches ==
                        zip_geometry(new_batches, parsed.value.chunks, new_schema, 1)
                IN  IF ~new_record_batches.ok THEN Panic(NoTable)
                    ELSE try_new(new_record_batches.batches, new_schema)

(***************************************************************************)
(* Table: geometry-column lookups (the table is left as it is)             *)
(***************************************************************************)
\* A plausible bug: the first geometry column is the default whenever
\* there is at least one.
default_geometry_column_idx_first(t) ==
    LET geom_col_indices == schema_geometry_columns(t.schema)
    IN  IF Len(geom_col_indices) = 0 THEN Err(t, "ambiguous")
        ELSE Ok(t, geom_col_indices[1])

default_geometry_column_idx(t) ==
    LET geom_col_indices == schema_geometry_columns(t.schema)
    IN  IF Len(geom_col_indices) # 1 THEN Err(t, "ambiguous")
        ELSE Ok(t, geom_col_indices[1])

\* The index geometry_column works on: the given one, or the only
\* geometry column.  index is an Option<usize>.
geometry_column_index(t, index) ==
    IF index.some THEN [ok |-> TRUE, index |-> index.v]
    ELSE LET geom_indices == schema_geometry_columns(t.schema)
         IN  IF Len(geom_indices) = 1 THEN [ok |-> TRUE, index |-> geom_indices[1]]
             ELSE [ok |-> FALSE]

geometry_column(t, index, empty) ==
    LET r == geometry_column_index(t, index)
    IN  IF ~r.ok THEN Err(t, "ambiguous")
        ELSE IF r.index >= Len(t.schema.fields) THEN Panic(t)
        ELSE LET array_refs == column_slices(t, r.index)
             IN  IF ~array_refs.ok THEN Panic(t)
                 ELSE LET c == from_arrow_chunks(array_refs.slices,
                                                 t.schema.fields[r.index + 1], empty)
                      IN  CASE c.status = "Panic" -> Panic(t)
                            [] c.status = "Err" -> Err(t, "not a geometry")
                            [] OTHER -> Ok(t, c.value)

\* Table::geometry_columns: geometry_column(Some(index)) for every
\* geometry column, collected; the first failure is the result.
geometry_columns(t, empty) ==
    LET idx == schema_geometry_columns(t.schema)
        each == [k \in 1..Len(idx) |-> geometry_column(t, Some(idx[k]), empty)]
    IN  IF \E k \in 1..Len(idx) : each[k].status # "Ok"
        THEN each[CHOOSE k \in 1..Len(idx) :
                    /\ each[k].status # "Ok"
                    /\ \A m \in 1..(k - 1) : each[m].status = "Ok"]
        ELSE Ok(t, [k \in 1..Len(idx) |-> each[k].value])

(***************************************************************************)
(* The inputs handed to the calls                                          *)
(***************************************************************************)
F_id == Field("id", Int32, FALSE, "none")
F_pt == to_field(Geo("Point", "XY"), "geometry", TRUE)
F_wkb == to_field(WKB, "wkb", TRUE)

\* The fields handed to set_column and append_column: the input columns
\* hold arrays of these two types.
InputFields == {F_id, F_wkb}

A_id == Arr(Int32, 1, 0, "a")
A_id2 == Arr(Int32, 2, 0, "b")
A_pt == Arr(to_data_type(Geo("Point", "XY")), 1, 0, "pt")
A_pt_null == Arr(to_data_type(Geo("Point", "XY")), 1, 1, "pt")
A_wkb == Arr(to_data_type(WKB), 1, 0, "pt")
A_wkb_ls == Arr(to_data_type(WKB), 1, 0, "ls")
A_wkb_bad == Arr(to_data_type(WKB), 1, 0, "bad")
A_wkb_empty == Arr(to_data_type(WKB), 0, 0, "pt")

\* The arrays handed to set_column and append_column.
ColumnArrays == {A_id, A_wkb}

InputColumns == UpToSeqs(ColumnArrays, MaxBatches)

\* A record batch as RecordBatch::try_new builds it.
Batch(fields, md, columns) == RecordBatch_try_new(Schema(fields, md), columns).batch

\* A batch without columns, as RecordBatch::try_new_with_options builds it
\* from a row count.
NoColumnsBatch == [schema |-> Schema(<< >>, "none"), columns |-> << >>, row_count |-> 2]

InputBatches ==
    {Batch(<<F_id>>, "none", <<A_id>>),
     Batch(<<F_id>>, "none", <<A_id2>>),
     Batch(<<F_wkb>>, "m", <<A_wkb>>),
     Batch(<<F_wkb>>, "none", <<A_wkb_ls>>),
     Batch(<<F_wkb>>, "none", <<A_wkb_bad>>),
     Batch(<<F_wkb>>, "none", <<A_wkb_empty>>),
     Batch(<<F_id, F_pt>>, "none", <<A_id, A_pt>>),
     Batch(<<F_pt, F_wkb>>, "none", <<A_pt, A_wkb>>),
     NoColumnsBatch}

InputBatchLists == UpToSeqs(InputBatches, MaxBatches)

InputSchemas ==
    {Schema(<< >>, "none"), Schema(<<F_id>>, "none"), Schema(<<F_wkb>>, "none"),
     Schema(<<F_id, F_pt>>, "m"), Schema(<<F_pt, F_wkb>>, "none")}

\* Chunked geometry arrays of at least one chunk, all chunks of one type.
InputGeometries ==
    {Chunked(Geo("Point", "XY"), c) : c \in UpToSeqs({A_pt, A_pt_null}, MaxBatches) \ {<< >>}}

CastTargets ==
    {Geo("Point", "XY"), Geo("Point", "XYZ"), Geo("LineString", "XY"),
     Geo("LargeMixed", "XY")}

ParseTargets == {None, Some(Geo("Point", "XYZ"))}

\* What from_arrow_chunks does with no chunks at all.
EmptyChunks(t) == IF t.batches = << >> THEN {"Err", "Panic"} ELSE {"Err"}

(***************************************************************************)
(* The state: one Table, the call last made on it and what it returned     *)
(***************************************************************************)
VARIABLES
    live,         \* whether a constructor has returned a table
    schema,       \* Table.schema
    batches,      \* Table.batches
    old_schema,   \* the table as it was when the last call was made
    old_batches,
    call,         \* the last call: [op, args]
    ret,          \* what it returned: [status, value]
    calls,        \* the number of mutating calls made on the table
    arcs,         \* the Arc<Schema> allocations shared between a table and its clone
    schema_arc,   \* the allocation Table.schema points to (0: not tracked)
    t1            \* the table the table is a clone of: [schema, batches]

vars == <<live, schema, batches, old_schema, old_batches, call, ret, calls,
          arcs, schema_arc, t1>>

\* The number of mutating calls made on one table.
MaxCalls == 2

self == Table(schema, batches)
old == Table(old_schema, old_batches)

Init ==
    /\ live = FALSE
    /\ schema = NoTable.schema
    /\ batches = NoTable.batches
    /\ old_schema = NoTable.schema
    /\ old_batches = NoTable.batches
    /\ call = [op |-> "none", args |-> << >>]
    /\ ret = [status |-> "none", value |-> "none"]
    /\ calls = 0
    /\ arcs = << >>
    /\ schema_arc = 0
    /\ t1 = [schema |-> 0, batches |-> << >>]

\* The call op(args) returned r.
Returns(op, args, r) ==
    /\ schema' = r.table.schema
    /\ batches' = r.table.batches
    /\ old_schema' = schema
    /\ old_batches' = batches
    /\ call' = [op |-> op, args |-> args]
    /\ ret' = [status |-> r.status, value |-> r.value]
    /\ UNCHANGED <<arcs, schema_arc, t1>>

LookupOps == {"default_geometry_column_idx", "geometry_column", "geometry_columns"}

\* The caller goes on with the table while its calls succeed: a call that
\* fails or panics is the last one, and so is a lookup, which leaves the
\* table as it is.
Running == live /\ ret.status = "Ok" /\ call.op \notin LookupOps

\* No table has been asked for yet.
Fresh == call.op = "none"

TryNew ==
    /\ Fresh
    /\ \E bs \in InputBatchLists, sch \in InputSchemas :
          LET r == try_new(bs, sch)
          IN  /\ Returns("try_new", [batches |-> bs, schema |-> sch], r)
              /\ live' = (r.status = "Ok")
    /\ UNCHANGED calls

FromArrowAndGeometry ==
    /\ Fresh
    /\ \E bs \in InputBatchLists, sch \in InputSchemas, g \in InputGeometries :
          LET r == from_arrow_and_geometry(bs, sch, g)
          IN  /\ Returns("from_arrow_and_geometry",
                         [batches |-> bs, schema |-> sch, geometry |-> g], r)
              /\ live' = (r.status = "Ok")
    /\ UNCHANGED calls

Mutating == Running /\ calls < MaxCalls

SetColumn ==
    /\ Mutating
    /\ \E i \in 0..num_columns(self), field \in InputFields, column \in InputColumns :
          Returns("set_column", [i |-> i, field |-> field, column |-> column],
                  set_column(self, i, field, column))
    /\ calls' = calls + 1
    /\ UNCHANGED live

AppendColumn ==
    /\ Mutating
    /\ num_columns(self) < MaxCols
    /\ \E field \in InputFields, column \in InputColumns :
          Returns("append_column", [field |-> field, column |-> column],
                  append_column(self, field, column))
    /\ calls' = calls + 1
    /\ UNCHANGED live

RemoveColumn ==
    /\ Mutating
    /\ \E i \in 0..num_columns(self) :
          Returns("remove_column", [i |-> i], remove_column(self, i))
    /\ calls' = calls + 1
    /\ UNCHANGED live

CastGeometry ==
    /\ Mutating
    /\ \E index \in 0..num_columns(self), to_type \in CastTargets,
          empty \in EmptyChunks(self) :
          Returns("cast_geometry", [index |-> index, to_type |-> to_type],
                  cast_geometry(self, index, to_type, empty))
    /\ calls' = calls + 1
    /\ UNCHANGED live

ParseGeometryToNative ==
    /\ Mutating
    /\ \E index \in 0..num_columns(self), target \in ParseTargets :
          Returns("parse_geometry_to_native", [index |-> index, target |-> target],
                  parse_geometry_to_native(self, index, target))
    /\ calls' = calls + 1
    /\ UNCHANGED live

DefaultGeometryColumnIdx ==
    /\ Running
    /\ Returns("default_geometry_column_idx", << >>, default_geometry_column_idx(self))
    /\ UNCHANGED <<live, calls>>

GeometryColumn ==
    /\ Running
    /\ \E index \in {None} \cup {Some(i) : i \in 0..num_columns(self)},
          empty \in EmptyChunks(self) :
          Returns("geometry_column", [index |-> index, empty |-> empty],
                  geometry_column(self, index, empty))
    /\ UNCHANGED <<live, calls>>

GeometryColumns ==
    /\ Running
    /\ \E empty \in EmptyChunks(self) :
          Returns("geometry_columns", << >>, geometry_columns(self, empty))
    /\ UNCHANGED <<live, calls>>

Next ==
    \/ TryNew
    \/ FromArrowAndGeometry
    \/ SetColumn
    \/ AppendColumn
    \/ RemoveColumn
    \/ CastGeometry
    \/ ParseGeometryToNative
    \/ DefaultGeometryColumnIdx
    \/ GeometryColumn
    \/ GeometryColumns

Spec == Init /\ [][Next]_vars

(***************************************************************************)
(* A table and its clone.  Table derives Clone: the clone gets a copy of   *)
(* the Arc<Schema> pointer, which points to the allocation the original    *)
(* points to, and a Vec<RecordBatch> of its own.  What the original sees   *)
(* as its schema is the content of the allocation it points to.            *)
(***************************************************************************)
\* #[derive(Clone)]: the pointer is copied and the batches are copied.
clone(t) == [schema |-> t.schema, batches |-> t.batches]

\* A plausible bug: the new schema is written into the allocation the
\* table points to.
store_schema_in_place(as, arc, new_schema) ==
    [arcs |-> [as EXCEPT ![arc] = new_schema], arc |-> arc]

\* self.schema = schema, with schema a new Arc: the table points to a new
\* allocation and the old one is left as it is.
store_schema(as, arc, new_schema) ==
    [arcs |-> Append(as, new_schema), arc |-> Len(as) + 1]

\* The clone's source as its owner sees it.
T1 == Table(arcs[t1.schema], t1.batches)

\* T1 has been built by try_new and the table is T1.clone().
InitClone ==
    /\ \E bs \in InputBatchLists, sch \in InputSchemas :
          LET r == try_new(bs, sch)
          IN  /\ r.status = "Ok"
              /\ arcs = <<r.table.schema>>
              /\ t1 = [schema |-> 1, batches |-> r.table.batches]
    /\ schema_arc = clone(t1).schema
    /\ schema = arcs[schema_arc]
    /\ batches = clone(t1).batches
    /\ old_schema = schema
    /\ old_batches = batches
    /\ live = TRUE
    /\ call = [op |-> "clone", args |-> << >>]
    /\ ret = [status |-> "Ok", value |-> "unit"]
    /\ calls = 0

\* The mutating call op(args) on the clone returned r.  Every mutator
\* assigns self.schema and self.batches as its last step and only when it
\* succeeds.  The caller goes on after an error; a panic unwinds, and no
\* further call is made on the clone.
ReturnsOnClone(op, args, r) ==
    /\ calls < MaxCalls
    /\ ret.status # "Panic"
    /\ LET stored == IF r.status = "Ok"
                     THEN store_schema(arcs, schema_arc, r.table.schema)
                     ELSE [arcs |-> arcs, arc |-> schema_arc]
       IN  /\ arcs' = stored.arcs
           /\ schema_arc' = stored.arc
           /\ schema' = stored.arcs[stored.arc]
    /\ batches' = r.table.batches
    /\ old_schema' = schema
    /\ old_batches' = batches
    /\ call' = [op |-> op, args |-> args]
    /\ ret' = [status |-> r.status, value |-> r.value]
    /\ calls' = calls + 1
    /\ UNCHANGED <<live, t1>>

SetColumnOnClone ==
    \E i \in 0..num_columns(self), field \in InputFields, column \in InputColumns :
        ReturnsOnClone("set_column", [i |-> i, field |-> field, column |-> column],
                       set_column(self, i, field, column))

AppendColumnOnClone ==
    /\ num_columns(self) < MaxCols
    /\ \E field \in InputFields, column \in InputColumns :
          ReturnsOnClone("append_column", [field |-> field, column |-> column],
                         append_column(self, field, column))

RemoveColumnOnClone ==
    \E i \in 0..num_columns(self) :
        ReturnsOnClone("remove_column", [i |-> i], remove_column(self, i))

CastGeometryOnClone ==
    \E index \in 0..num_columns(self), to_type \in CastTargets,
       empty \in EmptyChunks(self) :
        ReturnsOnClone("cast_geometry", [index |-> index, to_type |-> to_type],
                       cast_geometry(self, index, to_type, empty))

ParseGeometryToNativeOnClone ==
    \E index \in 0..num_columns(self), target \in ParseTargets :
        ReturnsOnClone("parse_geometry_to_native", [index |-> index, target |-> target],
                       parse_geometry_to_native(self, index, target))

NextClone ==
    \/ SetColumnOnClone
    \/ AppendColumnOnClone
    \/ RemoveColumnOnClone
    \/ CastGeometryOnClone
    \/ ParseGeometryToNativeOnClone

SpecClone == InitClone /\ [][NextClone]_vars

(***************************************************************************)
(* Geometry arrays and the algorithms on them.  A geometry array is its    *)
(* geometry type and its rows; a row is None (null) or Some(geometry); a   *)
(* geometry is the list of its parts (the rings of a polygon, the one      *)
(* coordinate list of a point or a line string), a part the list of its    *)
(* coordinates <<x, y>>.                                                   *)
(***************************************************************************)
\* The number of rows of an array handed to an algorithm, and of
\* transforms in a per-row vector.
MaxRows == 3

GeometryArray(geom_type, rows) == [geom_type |-> geom_type, rows |-> rows]

\* geo::AffineTransform, the matrix [a b xoff; d e yoff; 0 0 1].
AffineTransform(a, b, xoff, d, e, yoff) ==
    [a |-> a, b |-> b, xoff |-> xoff, d |-> d, e |-> e, yoff |-> yoff]

\* AffineTransform::apply on one coordinate.
apply(transform, coord) ==
    <<transform.a * coord[1] + transform.b * coord[2] + transform.xoff,
      transform.d * coord[1] + transform.e * coord[2] + transform.yoff>>

\* MapCoords::map_coords: f on every coordinate of the geometry.
map_coords(geom, transform) ==
    [r \in 1..Len(geom) |-> [c \in 1..Len(geom[r]) |-> apply(transform, geom[r][c])]]

\* BroadcastableVec: one value for every row, or one value per row.
Scalar(x) == [kind |-> "Scalar", value |-> x]
Array(xs) == [kind |-> "Array", values |-> xs]

\* BroadcastableVec::into_iter, as far as a zip with n items reads it: a
\* scalar is repeated without end, a vector yields its elements.
into_iter(transform, n) ==
    IF transform.kind = "Scalar" THEN [i \in 1..n |-> transform.value]
    ELSE SubSeq(transform.values, 1, Min(n, Len(transform.values)))

\* A plausible bug: every row gets the first transform.
affine_transform_first(array, transform) ==
    LET transforms == into_iter(transform, Len(array.rows))
    IN  GeometryArray(array.geom_type,
                      [i \in 1..Len(transforms) |->
                          IF array.rows[i].some
                          THEN Some(map_coords(array.rows[i].v, transforms[1]))
                          ELSE None])

\* A plausible bug: the null rows are left out of the output.
affine_transform_skips_nulls(array, transform) ==
    LET transforms == into_iter(transform, Len(array.rows))
        valid == SelectSeq([i \in 1..Len(transforms) |-> i],
                           LAMBDA i : array.rows[i].some)
    IN  GeometryArray(array.geom_type,
                      [k \in 1..Len(valid) |->
                          Some(map_coords(array.rows[valid[k]].v, transforms[valid[k]]))])

\* AffineOps::affine_transform: iter_geo() zipped with the transforms, so
\* as many rows as the shorter of the two has.
affine_transform(array, transform) ==
    LET transforms == into_iter(transform, Len(array.rows))
    IN  GeometryArray(array.geom_type,
                      [i \in 1..Len(transforms) |->
                          IF array.rows[i].some
                          THEN Some(map_coords(array.rows[i].v, transforms[i]))
                          ELSE None])

\* Twice the signed area enclosed by a ring (the shoelace sum), positive
\* for a counter-clockwise ring.
RECURSIVE shoelace(_, _)
shoelace(ring, c) ==
    IF c >= Len(ring) THEN 0
    ELSE ring[c][1] * ring[c + 1][2] - ring[c + 1][1] * ring[c][2] + shoelace(ring, c + 1)

Abs(x) == IF x < 0 THEN -x ELSE x

RECURSIVE holes_area(_, _)
holes_area(geom, r) ==
    IF r > Len(geom) THEN 0 ELSE Abs(shoelace(geom[r], 1)) + holes_area(geom, r + 1)

\* Twice the signed area of a geometry: of a polygon the area of the
\* exterior less the holes, with the sign of the exterior's winding; of a
\* point or a line string 0.  (Twice the area keeps the values integers.)
geometry_signed_area(geom_type, geom) ==
    IF geom_type # "Polygon" \/ geom = << >> THEN 0
    ELSE LET exterior == shoelace(geom[1], 1)
             area == Abs(exterior) - holes_area(geom, 2)
         IN  IF exterior < 0 THEN -area ELSE area

\* Area::signed_area and Area::unsigned_area on an array: a Float64Array
\* with one row per row of the input, null where the input is null.
signed_area(array) ==
    [i \in 1..Len(array.rows) |->
        IF array.rows[i].some
        THEN Some(geometry_signed_area(array.geom_type, array.rows[i].v))
        ELSE None]

unsigned_area(array) ==
    [i \in 1..Len(array.rows) |->
        IF array.rows[i].some
        THEN Some(Abs(geometry_signed_area(array.geom_type, array.rows[i].v)))
        ELSE None]

\* AnyGeometryInput: one array or a chunked array.
AnyArray(arr) == [variant |-> "Array", array |-> arr]
AnyChunked(chunks) == [variant |-> "Chunked", chunks |-> chunks]

\* The Python functions area(input) and signed_area(input).
py_area(input) ==
    IF input.variant = "Array" THEN AnyArray(unsigned_area(input.array))
    ELSE AnyChunked([j \in 1..Len(input.chunks) |-> unsigned_area(input.chunks[j])])

py_signed_area(input) ==
    IF input.variant = "Array" THEN AnyArray(signed_area(input.array))
    ELSE AnyChunked([j \in 1..Len(input.chunks) |-> signed_area(input.chunks[j])])

\* The geometries, arrays and transforms handed to the algorithms.
G_point == <<<<<<1, 2>>>>>>
G_line == <<<<<<0, 0>>, <<2, 1>>>>>>
G_square == <<<<<<0, 0>>, <<2, 0>>, <<2, 2>>, <<0, 2>>, <<0, 0>>>>>>
G_holed ==
    <<<<<<0, 0>>, <<0, 3>>, <<3, 3>>, <<3, 0>>, <<0, 0>>>>,
      <<<<1, 1>>, <<2, 1>>, <<1, 2>>, <<1, 1>>>>>>

AllSeqs(S, n) == UNION {[1..m -> S] : m \in 0..n}

InputArrays ==
    {GeometryArray("Polygon", rows) :
        rows \in AllSeqs({None, Some(G_square), Some(G_holed)}, MaxRows)}
    \cup {GeometryArray("Point", rows) : rows \in TailSeqs({None, Some(G_point)}, MaxRows)}
    \cup {GeometryArray("LineString", rows) :
             rows \in TailSeqs({None, Some(G_line)}, MaxRows)}

T_shift == AffineTransform(1, 0, 1, 0, 1, 2)
T_scale == AffineTransform(2, 0, 0, 0, 3, 0)
T_turn == AffineTransform(0, -1, 0, 1, 0, 0)

InputTransforms ==
    {Scalar(t) : t \in {T_shift, T_scale, T_turn}}
    \cup {Array(ts) : ts \in AllSeqs({T_shift, T_turn}, MaxRows)}

InputAny ==
    {AnyArray(a) : a \in InputArrays}
    \cup {AnyChunked(<<a, b>>) :
             a \in {x \in InputArrays : x.geom_type = "Polygon" /\ Len(x.rows) = 1},
             b \in {x \in InputArrays : x.geom_type = "Polygon" /\ Len(x.rows) = 2}}

\* The call op(args) on arrays returned value; no table is involved.
Computes(op, args, value) ==
    /\ call' = [op |-> op, args |-> args]
    /\ ret' = [status |-> "Ok", value |-> value]
    /\ UNCHANGED <<live, schema, batches, old_schema, old_batches, calls,
                   arcs, schema_arc, t1>>

AffineTransformCall ==
    /\ Fresh
    /\ \E array \in InputArrays, transform \in InputTransforms :
          Computes("affine_transform", [array |-> array, transform |-> transform],
                   affine_transform(array, transform))

Area ==
    /\ Fresh
    /\ \E input \in InputAny : Computes("area", [input |-> input], py_area(input))

SignedArea ==
    /\ Fresh
    /\ \E input \in InputAny :
          Computes("signed_area", [input |-> input], py_signed_area(input))

NextArrays ==
    \/ AffineTransformCall
    \/ Area
    \/ SignedArea

SpecArrays == Init /\ [][NextArrays]_vars

(***************************************************************************)
(* Tables made by the deprecated from_arrow from schemas whose fields      *)
(* carry all kinds of extension names, and the lookups on them             *)
(***************************************************************************)
\* The ARROW:extension:name values of the input fields: the names of the
\* GeoArrow types, and "none" (no such metadata), a GeoArrow name that is
\* not a geometry type's and a name in another case.
InputExtensionNames ==
    {"geoarrow.point", "geoarrow.linestring", "geoarrow.polygon",
     "geoarrow.multipoint", "geoarrow.multilinestring", "geoarrow.multipolygon",
     "geoarrow.geometry", "geoarrow.geometrycollection", "geoarrow.wkb", "ogc.wkb",
     "none", "geoarrow.box", "GEOARROW.POINT"}

\* The storage type of an input field with the given extension name.
InputDataType(ext) ==
    LET gs == {g \in [kind : GeoKinds \ {"LargeMixed", "LargeWKB"}, dim : {"XY", "-"}] :
                  /\ (g.dim = "-") = (g.kind = "WKB")
                  /\ \/ extension_name(g) = ext
                     \/ g.kind = "WKB" /\ ext = "ogc.wkb"}
    IN  IF gs = {} THEN Int32 ELSE to_data_type(CHOOSE g \in gs : TRUE)

ExtField(ext) == Field("g", InputDataType(ext), TRUE, ext)

ExtSchemas ==
    {Schema(fs, "none") :
        fs \in UNION {[1..n -> {ExtField(e) : e \in InputExtensionNames}] : n \in 1..2}}

\* One batch of one row for the schema.
ExtBatch(sch) ==
    Batch(sch.fields, "none",
          [k \in 1..Len(sch.fields) |-> Arr(sch.fields[k].data_type, 1, 0, "pt")])

FromArrow ==
    /\ Fresh
    /\ \E sch \in ExtSchemas, bs \in {0, 1},
          index \in {None, Some(0), Some(2)},
          target \in ParseTargets :
          LET batch_list == IF bs = 0 THEN << >> ELSE <<ExtBatch(sch)>>
              r == from_arrow(batch_list, sch, index, target, "Err")
          IN  /\ Returns("from_arrow",
                         [batches |-> batch_list, schema |-> sch,
                          geometry_column_index |-> index,
                          target |-> target], r)
              /\ live' = (r.status = "Ok")
    /\ UNCHANGED calls

NextFromArrow ==
    \/ FromArrow
    \/ DefaultGeometryColumnIdx
    \/ GeometryColumn
    \/ GeometryColumns

SpecFromArrow == Init /\ [][NextFromArrow]_vars

(***************************************************************************)
(* Properties                                                              *)
(***************************************************************************)
Mutators ==
    {"set_column", "append_column", "remove_column", "cast_geometry",
     "parse_geometry_to_native"}

\* The number of schema fields that carry a recognised extension name.
NumGeometryFields(t) ==
    Cardinality({k \in 1..Len(t.schema.fields) :
                    t.schema.fields[k].ext \in GEOARROW_EXTENSION_NAMES})

\* C1: whatever constructor returned the table and whatever calls have
\* been made on it since, every batch of the table has exactly the table
\* schema's field list (the schema-level metadata may differ).
C1_SchemaConsistency ==
    live => \A j \in 1..Len(batches) : batches[j].schema.fields = schema.fields

\* C1 witness: a second successful mutating call, a set_column that changed
\* the schema of a table with batches.
C1_Witness ==
    /\ live /\ calls = 2 /\ ret.status = "Ok" /\ call.op = "set_column"
    /\ batches # << >> /\ schema # old_schema

\* C2: try_new fails exactly when some batch's field list differs from the
\* schema's; otherwise (also with no batches) the table holds the given
\* batches, in order, and the given schema.
C2_TryNew ==
    call.op = "try_new" =>
        LET differs == \E j \in 1..Len(call.args.batches) :
                           call.args.batches[j].schema.fields # call.args.schema.fields
        IN  /\ ret.status \in {"Ok", "Err"}
            /\ (ret.status = "Err") = differs
            /\ ret.status = "Ok" =>
                   /\ live
                   /\ batches = call.args.batches
                   /\ schema = call.args.schema

\* C2 witness: a batch with fewer columns than the schema is rejected,
\* although the batch before it matched.
C2_Witness ==
    /\ call.op = "try_new" /\ ret.status = "Err"
    /\ Len(call.args.batches) = 2
    /\ call.args.batches[1].schema.fields = call.args.schema.fields
    /\ Len(call.args.batches[2].schema.fields) < Len(call.args.schema.fields)

\* C3 (as claimed): from_arrow_and_geometry fails when there are no
\* batches, when the number of chunks differs from the number of batches
\* and when a chunk's row count differs from its batch's; a table it
\* returns has every batch and every chunk.
C3_AsClaimed ==
    call.op = "from_arrow_and_geometry" =>
        LET bs == call.args.batches
            cs == call.args.geometry.chunks
        IN  /\ (\/ bs = << >>
                \/ Len(cs) # Len(bs)
                \/ \E j \in 1..Min(Len(bs), Len(cs)) : cs[j].len # bs[j].row_count)
               => ret.status = "Err"
            /\ ret.status = "Ok" => Len(batches) = Len(bs) /\ Len(batches) = Len(cs)

\* C4: when from_arrow_and_geometry succeeds on as many chunks as
\* batches, the table has these batches, each with its own columns in
\* order followed by its chunk, and the schema is the given fields followed
\* by the geometry's extension field.
C4_FromArrowAndGeometry ==
    (/\ call.op = "from_arrow_and_geometry" /\ ret.status = "Ok"
     /\ Len(call.args.geometry.chunks) = Len(call.args.batches)) =>
        LET bs == call.args.batches
            cs == call.args.geometry.chunks
            k == Len(call.args.schema.fields)
        IN  /\ Len(batches) = Len(bs)
            /\ num_columns(self) = k + 1
            /\ \A m \in 1..k : schema.fields[m] = call.args.schema.fields[m]
            /\ schema.fields[k + 1].ext = extension_name(call.args.geometry.data_type)
            /\ schema.fields[k + 1].data_type = to_data_type(call.args.geometry.data_type)
            /\ \A j \in 1..Len(bs) :
                  /\ Len(bs[j].columns) = k
                  /\ Len(batches[j].columns) = k + 1
                  /\ \A m \in 1..k : batches[j].columns[m] = bs[j].columns[m]
                  /\ batches[j].columns[k + 1] = cs[j]

\* C4 witness: two batches of one column each and two different chunks.
C4_Witness ==
    /\ call.op = "from_arrow_and_geometry" /\ ret.status = "Ok"
    /\ Len(call.args.batches) = 2 /\ Len(call.args.geometry.chunks) = 2
    /\ call.args.geometry.chunks[1] # call.args.geometry.chunks[2]
    /\ Len(call.args.schema.fields) = 1

\* C5 (as claimed): a successful set_column keeps the number of batches,
\* puts the field at i and columns[j] at column i of batch j, and leaves
\* every other field and column, the column count and the row count alone.
C5_AsClaimed ==
    (call.op = "set_column" /\ ret.status = "Ok") =>
        LET i == call.args.i
        IN  /\ Len(batches) = Len(old_batches)
            /\ Len(schema.fields) = Len(old_schema.fields)
            /\ schema.fields[i + 1] = call.args.field
            /\ \A m \in 1..Len(schema.fields) :
                  m # i + 1 => schema.fields[m] = old_schema.fields[m]
            /\ \A j \in 1..Len(batches) :
                  /\ batches[j].columns[i + 1] = call.args.column[j]
                  /\ Len(batches[j].columns) = Len(old_batches[j].columns)
                  /\ \A m \in 1..Len(batches[j].columns) :
                        m # i + 1 => batches[j].columns[m] = old_batches[j].columns[m]
            /\ len(self) = len(old)

\* C6: a set_column, append_column, cast_geometry or
\* parse_geometry_to_native that returns an error leaves the schema and
\* every batch as they were.
C6_Atomic ==
    (/\ call.op \in {"set_column", "append_column", "cast_geometry",
                     "parse_geometry_to_native"}
     /\ ret.status = "Err") =>
        /\ schema = old_schema
        /\ batches = old_batches

\* C6 witness: set_column fails on the second batch (wrong row count or
\* type) after the first batch took its new array.
C6_Witness ==
    /\ call.op = "set_column" /\ ret.status = "Err"
    /\ Len(old_batches) = 2 /\ Len(call.args.column) = 2
    /\ RecordBatch_try_new(
           Schema(SetAt(old_schema.fields, call.args.i, call.args.field), "none"),
           SetAt(old_batches[1].columns, call.args.i, call.args.column[1])).ok

\* C7 (as claimed): cast_geometry with an index that is no column hands an
\* error value to the caller and leaves the table as it was.
C7_AsClaimed ==
    (call.op = "cast_geometry" /\ call.args.index >= num_columns(old)) =>
        /\ ret.status = "Err"
        /\ schema = old_schema
        /\ batches = old_batches

\* C8 (as claimed): a successful append_column on a table of k columns
\* returns k, makes the field the last of k + 1, puts column[j] at column k
\* of batch j and leaves the first k fields and columns, the number of
\* batches and len() alone.
C8_AsClaimed ==
    (call.op = "append_column" /\ ret.status = "Ok") =>
        LET k == num_columns(old)
        IN  /\ ret.value = k
            /\ num_columns(self) = k + 1
            /\ schema.fields[k + 1] = call.args.field
            /\ \A m \in 1..k : schema.fields[m] = old_schema.fields[m]
            /\ Len(batches) = Len(old_batches)
            /\ \A j \in 1..Len(batches) :
                  /\ Len(batches[j].columns) = k + 1
                  /\ batches[j].columns[k + 1] = call.args.column[j]
                  /\ \A m \in 1..k : batches[j].columns[m] = old_batches[j].columns[m]
            /\ len(self) = len(old)

\* C9: remove_column(i) with i a column takes field i out of the schema
\* and column i out of every batch, keeps the others in order, keeps the
\* number of batches and len(), and returns the former column i of every
\* batch, one chunk per batch in batch order.
C9_RemoveColumn ==
    (call.op = "remove_column" /\ call.args.i < num_columns(old)) =>
        LET i == call.args.i
            k == num_columns(old)
        IN  /\ ret.status = "Ok"
            /\ num_columns(self) = k - 1
            /\ \A m \in 1..(k - 1) :
                  schema.fields[m] = old_schema.fields[IF m <= i THEN m ELSE m + 1]
            /\ Len(batches) = Len(old_batches)
            /\ len(self) = len(old)
            /\ Len(ret.value) = Len(old_batches)
            /\ \A j \in 1..Len(batches) :
                  /\ Len(batches[j].columns) = k - 1
                  /\ \A m \in 1..(k - 1) :
                        batches[j].columns[m] =
                            old_batches[j].columns[IF m <= i THEN m ELSE m + 1]
                  /\ ret.value[j] = old_batches[j].columns[i + 1]

\* C9 witness: the first of two columns is removed from two batches.
C9_Witness ==
    /\ call.op = "remove_column" /\ ret.status = "Ok" /\ call.args.i = 0
    /\ num_columns(old) = 2 /\ Len(old_batches) = 2

\* C10: with more than one geometry column default_geometry_column_idx
\* and geometry_column(None) fail; with exactly one, the former returns its
\* index and the latter returns what geometry_column(Some(index)) returns.
C10_DefaultGeometryColumn ==
    /\ call.op = "default_geometry_column_idx" =>
          /\ NumGeometryFields(old) > 1 => ret.status = "Err"
          /\ NumGeometryFields(old) = 1 =>
                /\ ret.status = "Ok"
                /\ ret.value \in 0..(num_columns(old) - 1)
                /\ old_schema.fields[ret.value + 1].ext \in GEOARROW_EXTENSION_NAMES
    /\ (call.op = "geometry_column" /\ ~call.args.index.some) =>
          /\ NumGeometryFields(old) > 1 => ret.status = "Err"
          /\ NumGeometryFields(old) = 1 =>
                \E i \in 0..(num_columns(old) - 1) :
                    /\ old_schema.fields[i + 1].ext \in GEOARROW_EXTENSION_NAMES
                    /\ LET r == geometry_column(old, Some(i), call.args.empty)
                       IN  r.status = ret.status /\ r.value = ret.value

\* C10 witness: the default index is asked of a table with two geometry
\* columns.
C10_Witness ==
    /\ call.op = "default_geometry_column_idx" /\ ret.status = "Err"
    /\ NumGeometryFields(old) = 2 /\ old_batches # << >>

\* The type parse_geometry_to_native parses to: the target, or LargeMixed
\* XY when the target is omitted.
ParseTarget(target) == IF target.some THEN target.v ELSE Geo("LargeMixed", "XY")

\* C11: parse_geometry_to_native(index, target) with index a column of a
\* table without rows returns Ok; afterwards the table has no batches,
\* field index has the data type and extension name of the target
\* (LargeMixed XY when the target is omitted) and the name and nullability
\* it had, and every other field is as it was.
C11_ParseEmpty ==
    (/\ call.op = "parse_geometry_to_native"
     /\ is_empty(old)
     /\ call.args.index < num_columns(old)) =>
        LET index == call.args.index
            g == ParseTarget(call.args.target)
        IN  /\ ret.status = "Ok"
            /\ batches = << >>
            /\ num_columns(self) = num_columns(old)
            /\ schema.fields[index + 1] =
                   [name |-> old_schema.fields[index + 1].name,
                    nullable |-> old_schema.fields[index + 1].nullable,
                    data_type |-> to_data_type(g),
                    ext |-> extension_name(g)]
            /\ \A k \in 1..num_columns(old) :
                  k # index + 1 => schema.fields[k] = old_schema.fields[k]

\* C11 witness: the second column of a table made from no batches and a
\* schema of two fields is parsed with the target omitted.
C11_Witness ==
    /\ call.op = "parse_geometry_to_native" /\ ret.status = "Ok"
    /\ old_batches = << >> /\ num_columns(old) = 2
    /\ call.args.index = 1 /\ ~call.args.target.some

\* parse_geometry_to_native was called on a column of the table that is a
\* geometry column of a type other than WKB and LargeWKB.
ParsedNativeColumn ==
    /\ call.op = "parse_geometry_to_native"
    /\ call.args.index < num_columns(old)
    /\ LET g == field_geo_type(old_schema.fields[call.args.index + 1])
       IN  g.ok /\ g.geo \notin {WKB, LargeWKB}

\* The column parse_geometry_to_native was called on has the data type,
\* the extension name and, batch by batch, the array it had.
ColumnAsBefore ==
    LET k == call.args.index + 1
    IN  /\ num_columns(self) = num_columns(old)
        /\ schema.fields[k].data_type = old_schema.fields[k].data_type
        /\ schema.fields[k].ext = old_schema.fields[k].ext
        /\ Len(batches) = Len(old_batches)
        /\ \A j \in 1..Len(batches) : batches[j].columns[k] = old_batches[j].columns[k]

\* C12 as claimed: parse_geometry_to_native on a geometry column that is
\* neither WKB nor LargeWKB leaves the column's data type and per-batch
\* arrays as they were, for every table, empty or not, and every target.
C12_AsClaimed == ParsedNativeColumn => ColumnAsBefore

\* C12: parse_geometry_to_native on a geometry column that is neither WKB
\* nor LargeWKB of a table with at least one row returns Ok and leaves the
\* column's data type and per-batch arrays as they were, for every target.
C12_PassThrough ==
    (ParsedNativeColumn /\ ~is_empty(old)) => (ret.status = "Ok" /\ ColumnAsBefore)

\* C12 witness: a point column of a table with rows is parsed with a
\* target of another type.
C12_Witness ==
    /\ ParsedNativeColumn /\ ~is_empty(old) /\ ret.status = "Ok"
    /\ call.args.target.some
    /\ to_data_type(call.args.target.v) #
           old_schema.fields[call.args.index + 1].data_type

\* C13: no call of set_column, append_column, remove_column, cast_geometry
\* or parse_geometry_to_native on a clone of T1, whether it succeeds or
\* fails, changes T1's schema, batches, num_columns() or len().
C13_ValueSemantics ==
    [][/\ T1'.schema = T1.schema
       /\ T1'.batches = T1.batches
       /\ num_columns(T1') = num_columns(T1)
       /\ len(T1') = len(T1)]_vars

\* C13 witness: two calls have been made on the clone, the last one
\* succeeded, and the clone has another schema and other batches than T1.
C13_Witness ==
    /\ call.op \in Mutators /\ ret.status = "Ok" /\ calls = 2
    /\ t1.schema # 0 /\ schema_arc # t1.schema
    /\ schema.fields # T1.schema.fields /\ batches # T1.batches

\* The transform is a per-row vector.
PerRow == call.args.transform.kind = "Array"

\* C14 as claimed: affine_transform with a per-row vector whose length is
\* not the array's number of rows fails, and affine_transform never
\* returns an array of fewer rows than its input has.
C14_AsClaimed ==
    call.op = "affine_transform" =>
        /\ (PerRow /\ Len(call.args.transform.values) # Len(call.args.array.rows)) =>
               ret.status = "Err"
        /\ ret.status = "Ok" => Len(ret.value.rows) >= Len(call.args.array.rows)

\* Row by row, out is null where in is null and only there, and has as
\* many rows as in.
SameValidity(in, out) ==
    /\ Len(out) = Len(in)
    /\ \A i \in 1..Len(in) : out[i].some <=> in[i].some

\* The rows of what area or signed_area returned agree in validity with
\* the rows of its input, chunk by chunk.
AreaSameValidity ==
    LET input == call.args.input
    IN  /\ ret.value.variant = input.variant
        /\ IF input.variant = "Array"
           THEN SameValidity(input.array.rows, ret.value.array)
           ELSE /\ Len(ret.value.chunks) = Len(input.chunks)
                /\ \A j \in 1..Len(input.chunks) :
                      SameValidity(input.chunks[j].rows, ret.value.chunks[j])

\* The transform is a scalar or a vector with one transform per row.
Broadcastable ==
    PerRow => Len(call.args.transform.values) = Len(call.args.array.rows)

\* C15: area(A), signed_area(A) and affine_transform(A, t), with t a
\* scalar or a vector of len(A) transforms, have len(A) rows, and row i of
\* each is null exactly when row i of A is null.
C15_NullPropagation ==
    /\ call.op \in {"area", "signed_area"} => AreaSameValidity
    /\ (call.op = "affine_transform" /\ Broadcastable) =>
           SameValidity(call.args.array.rows, ret.value.rows)

\* C15 witness: an array of three rows, the second one null and the
\* others not, has been transformed with a per-row vector.
C15_Witness ==
    /\ call.op = "affine_transform" /\ PerRow /\ Broadcastable
    /\ Len(call.args.array.rows) = 3
    /\ ~call.args.array.rows[2].some
    /\ call.args.array.rows[1].some /\ call.args.array.rows[3].some

\* C16: with a vector of len(A) transforms, every valid row i of
\* affine_transform's output has the parts and the coordinates per part of
\* row i of A, and each coordinate is transform i applied to the
\* coordinate of A in its place; with a scalar s the output is the one
\* obtained with the vector of len(A) copies of s.
C16_Broadcasting ==
    (call.op = "affine_transform" /\ Broadcastable) =>
        LET A == call.args.array.rows
            out == ret.value.rows
            ts == IF PerRow THEN call.args.transform.values
                  ELSE [i \in 1..Len(A) |-> call.args.transform.value]
        IN  /\ Len(out) = Len(A)
            /\ ret.value.geom_type = call.args.array.geom_type
            /\ \A i \in 1..Len(A) :
                  A[i].some =>
                      /\ out[i].some
                      /\ Len(out[i].v) = Len(A[i].v)
                      /\ \A r \in 1..Len(A[i].v) :
                            /\ Len(out[i].v[r]) = Len(A[i].v[r])
                            /\ \A c \in 1..Len(A[i].v[r]) :
                                  LET t == ts[i]
                                      x == A[i].v[r][c][1]
                                      y == A[i].v[r][c][2]
                                  IN  out[i].v[r][c] =
                                          <<t.a * x + t.b * y + t.xoff,
                                            t.d * x + t.e * y + t.yoff>>
            /\ ~PerRow => ret.value = affine_transform(call.args.array, Array(ts))

\* C16 witness: a polygon with a hole in the second of two rows has been
\* transformed with a vector of two different transforms.
C16_Witness ==
    /\ call.op = "affine_transform" /\ PerRow /\ Broadcastable
    /\ Len(call.args.array.rows) = 2
    /\ call.args.array.rows[2] = Some(G_holed)
    /\ call.args.transform.values[1] # call.args.transform.values[2]
    /\ ret.value.rows[2] # call.args.array.rows[2]

\* The field's extension name is one of the ten identifiers.
Recognised(field) ==
    field.ext \in {"geoarrow.point", "geoarrow.linestring", "geoarrow.polygon",
                   "geoarrow.multipoint", "geoarrow.multilinestring",
                   "geoarrow.multipolygon", "geoarrow.geometry",
                   "geoarrow.geometrycollection", "geoarrow.wkb", "ogc.wkb"}

RecognisedFields(fields) == {k \in 1..Len(fields) : Recognised(fields[k])}

\* C17: a field is taken for a geometry column exactly when its extension
\* name is one of the ten identifiers.  from_arrow without an index, given
\* batches, finds no geometry column exactly when no field of the schema
\* has one of them, and otherwise moves the first such field to the end;
\* default_geometry_column_idx succeeds exactly when one field of the
\* table has one of them and returns that field's index; geometry_columns
\* returns one array per such field.
C17_ExtensionNames ==
    /\ (/\ call.op = "from_arrow"
        /\ call.args.batches # << >>
        /\ ~call.args.geometry_column_index.some) =>
           LET fields == call.args.schema.fields
               found == RecognisedFields(fields)
           IN  /\ (ret.status = "Panic" /\ ret.value = "no geometry column in table")
                      <=> found = {}
               /\ (found # {} /\ ret.status = "Ok") =>
                      LET k == CHOOSE k \in found : \A m \in found : k <= m
                      IN  SubSeq(schema.fields, 1, Len(schema.fields) - 1) =
                              RemoveAt(fields, k - 1)
    /\ call.op = "default_geometry_column_idx" =>
           LET found == RecognisedFields(old_schema.fields)
           IN  /\ ret.status = "Ok" <=> Cardinality(found) = 1
               /\ ret.status = "Ok" => found = {ret.value + 1}
    /\ (call.op = "geometry_columns" /\ ret.status = "Ok") =>
           Len(ret.value) = Cardinality(RecognisedFields(old_schema.fields))

\* C17 witness: from_arrow without an index has taken the second field,
\* named ogc.wkb, of a schema whose first field is named geoarrow.box.
C17_Witness ==
    /\ call.op = "from_arrow" /\ ret.status = "Ok"
    /\ call.args.batches # << >>
    /\ ~call.args.geometry_column_index.some
    /\ Len(call.args.schema.fields) = 2
    /\ call.args.schema.fields[1].ext = "geoarrow.box"
    /\ call.args.schema.fields[2].ext = "ogc.wkb"
    /\ schema.fields[1].ext = "geoarrow.box"
    /\ schema.fields[2].ext = "geoarrow.point"

\* C18 as claimed: default_geometry_column_idx() and geometry_column(None)
\* succeed exactly when the table has one geometry column, so they also
\* fail when it has none, and geometry_columns() returns the empty list,
\* not an error, when it has none.
C18_AsClaimed ==
    /\ call.op = "default_geometry_column_idx" =>
           (ret.status = "Ok" <=> NumGeometryFields(old) = 1)
    /\ (call.op = "geometry_column" /\ ~call.args.index.some) =>
           (ret.status = "Ok" <=> NumGeometryFields(old) = 1)
    /\ (call.op = "geometry_columns" /\ NumGeometryFields(old) = 0) =>
           (ret.status = "Ok" /\ ret.value = << >>)

\* C19: when append_column(field, cols) has returned k and remove_column(k)
\* is the next call, the schema's field list and every batch's column list
\* are again what they were before the append, and remove_column returns
\* cols, one chunk per batch in order.
C19_RoundTrip ==
    [][(/\ call.op = "append_column" /\ ret.status = "Ok"
        /\ call'.op = "remove_column" /\ call'.args.i = ret.value) =>
           /\ ret'.status = "Ok"
           /\ schema'.fields = old_schema.fields
           /\ Len(batches') = Len(old_batches)
           /\ \A j \in 1..Len(old_batches) :
                 batches'[j].columns = old_batches[j].columns
           /\ ret'.value = call.args.column]_vars

\* C19 witness: the last of two columns, appended by the call before,
\* has been removed from a table of two batches.
C19_Witness ==
    /\ call.op = "remove_column" /\ ret.status = "Ok" /\ calls = 2
    /\ num_columns(old) = 2 /\ call.args.i = 1
    /\ Len(old_batches) = 2
    /\ old_schema.metadata = "none"
    /\ old_schema.fields[2] \in InputFields
    /\ ret.value \in InputColumns

====
